---------------------------- MODULE Spec2Model ----------------------------
(***************************************************************************)
(* Model of the tag tools of youtrack_mcp (tools/issues/tags.py) and of    *)
(* the response formatting they return through (utils.py).                 *)
(*                                                                         *)
(* Each public method of class Tags is a small process: it is invoked,     *)
(* issues its calls on the IssuesClient one at a time (every call is one   *)
(* step, and the local work up to the next call or to the return belongs   *)
(* to that step), and returns.  The IssuesClient (api/issues.py) is not    *)
(* part of the sources at hand; its two faces, the Tag Directory and the   *)
(* Issue Tag Store, are modelled from section 6 of the specification.      *)
(*                                                                         *)
(* Values.  Python / JSON values are tagged records [k |-> kind, v |-> x]. *)
(* A text (a Python str) is a sequence of pieces, so that f-strings and    *)
(* ", ".join are concatenations; a piece is a literal [lit |-> "abc"], the *)
(* ISO-8601 rendering of an instant [iso |-> n], or the decimal rendering  *)
(* of an integer [dec |-> n].  Epoch timestamps are counted in units of    *)
(* 10^6 ms, so that the range of datetime fits in TLC's integers.          *)
(***************************************************************************)
EXTENDS Integers, Sequences, FiniteSets, TLC

\* ------------------------------------------------------------------ bounds

\* Longest tag_names list handed to set_issue_tags.
MaxLen == 2

\* Tag names a caller may use, issue ids, and the ids the tracker assigned.
Names == {"deploy", "urgent", "ghost", "alpha"}
Issues == {"DEMO-123", "DEMO-7"}
TagIds == {"6-1", "6-2"}

\* Texts of the failures a collaborator may raise.
ErrTexts == {"API Error"}

\* "updated" stamps the tracker may put on an issue (units of 10^6 ms).
Timestamps == {1700000}

\* The callers of the tools; Spec runs the first one alone.
Clients == {1, 2}

\* Deepest nesting of the values handed to the response normalization.
MaxDepth == 2

\* ------------------------------------------------------------------ values

NoneV == [k |-> "null"]
BoolV(b) == [k |-> "bool", v |-> b]
IntV(n) == [k |-> "int", v |-> n]
FloatV(n) == [k |-> "float", v |-> n]
StrV(t) == [k |-> "str", v |-> t]
ListV(s) == [k |-> "list", v |-> s]
MapV(f) == [k |-> "map", v |-> f]

\* The text of one literal.
Lit(s) == <<[lit |-> s]>>

\* A Python str holding the literal s.
S(s) == StrV(Lit(s))

\* bool(value), as `if tag:` and `if success:` take it.
Truthy(x) ==
    CASE x.k = "null" -> FALSE
      [] x.k = "bool" -> x.v
      [] x.k = "int" -> x.v # 0
      [] x.k = "str" -> Len(x.v) > 0
      [] x.k = "list" -> Len(x.v) > 0
      [] x.k = "map" -> DOMAIN x.v # {}
      [] OTHER -> TRUE

\* text `t` occurs in text `u` (Python's `t in u`, piece by piece).
Contains(u, t) ==
    \E i \in 0..(Len(u) - Len(t)) : SubSeq(u, i + 1, i + Len(t)) = t

\* separator.join(texts)
RECURSIVE Join(_, _)
Join(sep, texts) ==
    IF texts = <<>> THEN <<>>
    ELSE IF Len(texts) = 1 THEN texts[1]
    ELSE texts[1] \o sep \o Join(sep, Tail(texts))

\* --------------------------------------------------------------- utils.py

\* The instants datetime can hold: years 1 to 9999 (units of 10^6 ms).
DatetimeMin == -62135596
DatetimeMax == 253402300

\* Bug: an instant out of range is clamped to the last one datetime holds.
convert_timestamp_to_iso8601_clamped(timestamp_ms) ==
    IF timestamp_ms < DatetimeMin THEN <<[iso |-> DatetimeMin]>>
    ELSE IF timestamp_ms > DatetimeMax THEN <<[iso |-> DatetimeMax]>>
    ELSE <<[iso |-> timestamp_ms]>>

convert_timestamp_to_iso8601(timestamp_ms) ==
    IF timestamp_ms >= DatetimeMin /\ timestamp_ms <= DatetimeMax
    THEN <<[iso |-> timestamp_ms]>>
    ELSE <<[dec |-> timestamp_ms]>>

timestamp_fields == <<"created", "updated">>

\* isinstance(value, int): bool is a subclass of int in Python.
IsInstanceInt(x) == x.k \in {"int", "bool"}

\* The integer a Python int or bool counts as in arithmetic.
AsInt(x) == IF x.k = "bool" THEN (IF x.v THEN 1 ELSE 0) ELSE x.v

\* Bug: the stamp is written back in seconds next to its derived key.
WithIsoFields_rescaled(f) ==
    LET add(g, field) ==
            IF field \in DOMAIN g /\ g[field].k = "int"
            THEN LET iso_field == IF field = "created" THEN "created_iso8601"
                                  ELSE "updated_iso8601"
                     val == StrV(convert_timestamp_to_iso8601(g[field].v))
                 IN  [key \in DOMAIN g \cup {iso_field} |->
                         IF key = iso_field THEN val
                         ELSE IF key = field THEN IntV(g[field].v \div 1000)
                         ELSE g[key]]
            ELSE g
    IN  add(add(f, "created"), "updated")

\* The loop over timestamp_fields on a copy of mapping f.
WithIsoFields(f) ==
    LET add(g, field) ==
            IF field \in DOMAIN g /\ IsInstanceInt(g[field])
            THEN LET iso_field == IF field = "created" THEN "created_iso8601"
                                  ELSE "updated_iso8601"
                     val == StrV(convert_timestamp_to_iso8601(AsInt(g[field])))
                 IN  [key \in DOMAIN g \cup {iso_field} |->
                         IF key = iso_field THEN val ELSE g[key]]
            ELSE g
    IN  add(add(f, timestamp_fields[1]), timestamp_fields[2])

RECURSIVE add_iso8601_timestamps(_)
add_iso8601_timestamps(data) ==
    IF data.k = "map"
    THEN LET result == WithIsoFields(data.v)
         IN  MapV([key \in DOMAIN result |->
                     IF result[key].k \in {"map", "list"}
                     THEN add_iso8601_timestamps(result[key])
                     ELSE result[key]])
    ELSE IF data.k = "list"
    THEN ListV([i \in 1..Len(data.v) |-> add_iso8601_timestamps(data.v[i])])
    ELSE data

\* json.dumps: the text is stood for by the value it encodes.
JsonDumps(x) == [k |-> "json", v |-> x]

format_json_response(data) == JsonDumps(add_iso8601_timestamps(data))

\* --------------------------------- utils.py on the objects the caller holds

\* Python's dicts and lists are objects: `heap` lists them by address, a dict's
\* values and a list's items are cells: a scalar, or a reference to an object.
Ref(a) == [k |-> "ref", v |-> a]
IsRef(c) == c.k = "ref"
DictObj(f) == [k |-> "dict", v |-> f]
ListObj(s) == [k |-> "list", v |-> s]
EmptyDict == [key \in {} |-> NoneV]

\* result[key] = c on the dict at address a.
SetItem(h, a, key, c) ==
    [h EXCEPT ![a] = DictObj([x \in DOMAIN h[a].v \cup {key} |->
                                 IF x = key THEN c ELSE h[a].v[x]])]

\* Bug: the transform works on the caller's dict itself.
CopyDict_alias(h, a) == [h |-> h, r |-> a]

\* result = data.copy(): a new dict with the same cells.
CopyDict(h, a) == [h |-> Append(h, h[a]), r |-> Len(h) + 1]

RECURSIVE HeapNormalize(_, _)
RECURSIVE HeapItems(_, _, _)
RECURSIVE HeapList(_, _, _, _)

\* for key, value in result.items(): nested dicts and lists are replaced in
\* result by their transforms.
HeapItems(h, r, keys) ==
    IF keys = {} THEN h
    ELSE LET key == CHOOSE x \in keys : TRUE
             value == h[r].v[key]
         IN  IF IsRef(value)
             THEN LET n == HeapNormalize(h, value)
                  IN  HeapItems(SetItem(n.h, r, key, n.c), r, keys \ {key})
             ELSE HeapItems(h, r, keys \ {key})

\* The list comprehension: a new list of the items, dicts and lists among them
\* transformed.
HeapList(h, a, i, acc) ==
    IF i > Len(h[a].v)
    THEN [h |-> Append(h, ListObj(acc)), c |-> Ref(Len(h) + 1)]
    ELSE LET item == h[a].v[i]
         IN  IF IsRef(item)
             THEN LET n == HeapNormalize(h, item)
                  IN  HeapList(n.h, a, i + 1, Append(acc, n.c))
             ELSE HeapList(h, a, i + 1, Append(acc, item))

\* add_iso8601_timestamps(data) on the heap h: the heap afterwards and the
\* cell returned.
HeapNormalize(h, c) ==
    IF ~IsRef(c) THEN [h |-> h, c |-> c]
    ELSE IF h[c.v].k = "dict"
    THEN LET cp == CopyDict(h, c.v)
             h1 == [cp.h EXCEPT ![cp.r] = DictObj(WithIsoFields(cp.h[cp.r].v))]
         IN  [h |-> HeapItems(h1, cp.r, DOMAIN h1[cp.r].v), c |-> Ref(cp.r)]
    ELSE HeapList(h, c.v, 1, <<>>)

\* The JSON value a cell stands for.
RECURSIVE Value(_, _)
Value(h, c) ==
    IF ~IsRef(c) THEN c
    ELSE IF h[c.v].k = "dict"
    THEN MapV([key \in DOMAIN h[c.v].v |-> Value(h, h[c.v].v[key])])
    ELSE ListV([i \in 1..Len(h[c.v].v) |-> Value(h, h[c.v].v[i])])

\* The caller builds the value x: its objects are put on the heap, the nested
\* ones first.
RECURSIVE Alloc(_, _)
RECURSIVE AllocItems(_, _, _, _)
RECURSIVE AllocList(_, _, _, _)
AllocItems(h, f, keys, cells) ==
    IF keys = {} THEN [h |-> Append(h, DictObj(cells)), c |-> Ref(Len(h) + 1)]
    ELSE LET key == CHOOSE x \in keys : TRUE
             n == Alloc(h, f[key])
         IN  AllocItems(n.h, f, keys \ {key},
                        [x \in DOMAIN cells \cup {key} |->
                            IF x = key THEN n.c ELSE cells[x]])

AllocList(h, s, i, acc) ==
    IF i > Len(s) THEN [h |-> Append(h, ListObj(acc)), c |-> Ref(Len(h) + 1)]
    ELSE LET n == Alloc(h, s[i])
         IN  AllocList(n.h, s, i + 1, Append(acc, n.c))

Alloc(h, x) ==
    IF x.k = "map" THEN AllocItems(h, x.v, DOMAIN x.v, EmptyDict)
    ELSE IF x.k = "list" THEN AllocList(h, x.v, 1, <<>>)
    ELSE [h |-> h, c |-> x]


\* ----------------------------------------------------- outcomes and results

\* What a call on a collaborator comes back with: a value, or a raised failure.
Ret(x) == [kind |-> "ret", val |-> x]
Exc(e) == [kind |-> "exc", text |-> Lit(e)]

\* How an invocation of a tool ends: with a returned value, or with an
\* exception that leaves the method.
Returned(x) == [kind |-> "returned", value |-> x]
Raised(out) == [kind |-> "raised", text |-> out.text]

\* {"error": message}
ErrorDict(message) == MapV([error |-> StrV(message)])

\* ------------------------------------- collaborators (api/issues.py, sec. 6)

\* The name the tracker shows for a tag id.
TagName(id) == IF id = "6-1" THEN "deploy" ELSE IF id = "6-2" THEN "urgent" ELSE "other"

\* The orders the tracker lists names and ids in.
NameOrder == <<"alpha", "deploy", "ghost", "urgent">>
TagOrder == <<"6-1", "6-2">>

\* A Tag as the client hands it out.
TagV(id, name) == MapV([id |-> S(id), name |-> S(name)])

\* The tag id a Python str holds.
IdOf(x) == x.v[1].lit

\* Tag Directory, findExactByName: the Tag, or None; or it raises.
FindExactByName(dir, name) ==
    {Ret(IF dir[name] = "" THEN NoneV ELSE TagV(dir[name], name))}
        \cup {Exc(e) : e \in ErrTexts}

\* Tag Directory, list: the tags whose name passes the filter, at most `limit`.
DirectoryList(dir, query, limit) ==
    LET keep(n) == dir[n] # "" /\ (query.k = "null" \/ query = S(n))
        all == SelectSeq(NameOrder, keep)
        cut == SubSeq(all, 1, IF Len(all) < limit THEN Len(all) ELSE limit)
    IN  {Ret(ListV([i \in 1..Len(cut) |-> TagV(dir[cut[i]], cut[i])]))}
            \cup {Exc(e) : e \in ErrTexts}

\* The tags of a set, in the tracker's order.
TagList(ids) ==
    LET on(id) == id \in ids
        seq == SelectSeq(TagOrder, on)
    IN  ListV([i \in 1..Len(seq) |-> TagV(seq[i], TagName(seq[i]))])

\* The updated issue representation the store answers a mutation with.
IssueRepr(issue, ids, ts) ==
    MapV([id |-> S(issue), tags |-> TagList(ids), updated |-> IntV(ts)])

\* Each store operation: the answers it may give, each with the tag sets it
\* leaves behind.  A raised failure leaves the store as it was.
StoreFails(tags) == {[out |-> Exc(e), tags |-> tags] : e \in ErrTexts}

ListForIssue(tags, issue) ==
    {[out |-> Ret(TagList(tags[issue])), tags |-> tags]} \cup StoreFails(tags)

AddById(tags, issue, tag_id) ==
    LET new == [tags EXCEPT ![issue] = @ \cup {IdOf(tag_id)}]
    IN  {[out |-> Ret(IssueRepr(issue, new[issue], ts)), tags |-> new] :
             ts \in Timestamps} \cup StoreFails(tags)

RemoveById(tags, issue, tag_id) ==
    LET new == [tags EXCEPT ![issue] = @ \ {IdOf(tag_id)}]
    IN  {[out |-> Ret(BoolV(IdOf(tag_id) \in tags[issue])), tags |-> new]}
            \cup StoreFails(tags)

SetIds(tags, issue, tag_ids) ==
    LET new == [tags EXCEPT ![issue] = {IdOf(tag_ids[i]) : i \in 1..Len(tag_ids)}]
    IN  {[out |-> Ret(IssueRepr(issue, new[issue], ts)), tags |-> new] :
             ts \in Timestamps} \cup StoreFails(tags)

ClearAll(tags, issue) ==
    LET new == [tags EXCEPT ![issue] = {}]
    IN  {[out |-> Ret(IssueRepr(issue, {}, ts)), tags |-> new] :
             ts \in Timestamps} \cup StoreFails(tags)

\* ------------------------------------------------------------------- state

VARIABLES
    directory,     \* Tag Directory: name -> tag id, "" when there is no such tag
    issueTags,     \* Issue Tag Store: issue -> the set of tag ids on it
    pc,            \* per client: "idle", "find", "mutate", "call" or "done"
    op,            \* per client: the tool being run
    args,          \* per client: the arguments of the invocation
    idx,           \* per client: position of set_issue_tags' for loop
    tag,           \* per client: local `tag` of add / remove
    tag_ids,       \* per client: local `tag_ids` of set_issue_tags
    missing_tags,  \* per client: local `missing_tags` of set_issue_tags
    calls,         \* per client: the calls made on the IssuesClient, in order
    result,        \* per client: how the invocation ended
    before,        \* per client: issueTags when the tool was invoked
    prev           \* per client: the add completed just before this invocation

\* A caller of utils.py: the objects it holds (heap), the argument it passes
\* to add_iso8601_timestamps (data), what the call returned (enhanced_data),
\* what a second call on that returned (enhanced_again), and the heap as it
\* was when the first call was made (heapAtCall).
VARIABLES heap, data, enhanced_data, enhanced_again, heapAtCall

\* The Issue Tag Store applies the mutations in the order they reach it:
\* lastWriter is, per issue, the caller whose mutation it answered last (0:
\* none yet).
VARIABLE lastWriter

toolVars ==
    <<directory, issueTags, pc, op, args, idx, tag, tag_ids, missing_tags,
      calls, result, before, prev, lastWriter>>

utilVars == <<heap, data, enhanced_data, enhanced_again, heapAtCall>>

vars == <<toolVars, utilVars>>

Ops ==
    {"get_available_tags", "get_issue_tags", "add_tag_to_issue",
     "remove_tag_from_issue", "set_issue_tags", "remove_all_tags_from_issue",
     "find_tag_by_name"}

\* The mutations of the Issue Tag Store, by the IssuesClient method.
MutationFns ==
    {"add_tag_to_issue", "remove_tag_from_issue", "set_issue_tags",
     "remove_all_tags_from_issue"}

RECURSIVE SeqsUpTo(_, _)
SeqsUpTo(S0, n) ==
    IF n = 0 THEN {<<>>}
    ELSE LET shorter == SeqsUpTo(S0, n - 1)
         IN  shorter \cup {Append(s, x) : s \in shorter, x \in S0}

\* The argument tuples a caller may pass to each tool.
NoArgs == [issue_id |-> "", tag_name |-> "", tag_names |-> <<>>,
           query |-> NoneV, limit |-> 50]

ArgsOf(o) ==
    CASE o = "get_available_tags" ->
            {[NoArgs EXCEPT !.query = q, !.limit = l] :
                 q \in {NoneV, S("deploy")}, l \in {1, 50}}
      [] o \in {"get_issue_tags", "remove_all_tags_from_issue"} ->
            {[NoArgs EXCEPT !.issue_id = i] : i \in Issues}
      [] o \in {"add_tag_to_issue", "remove_tag_from_issue"} ->
            {[NoArgs EXCEPT !.issue_id = i, !.tag_name = n] :
                 i \in Issues, n \in Names}
      [] o = "set_issue_tags" ->
            {[NoArgs EXCEPT !.issue_id = i, !.tag_names = ns] :
                 i \in Issues, ns \in SeqsUpTo(Names, MaxLen)}
      [] o = "find_tag_by_name" ->
            {[NoArgs EXCEPT !.tag_name = n] : n \in Names}

NoResult == [kind |-> "none"]
NoPrev == [op |-> "none"]

ToolsInit ==
    /\ directory = [n \in Names |->
                      IF n = "deploy" THEN "6-1" ELSE IF n = "urgent" THEN "6-2" ELSE ""]
    /\ issueTags = [i \in Issues |-> {}]
    /\ pc = [p \in Clients |-> "idle"]
    /\ op = [p \in Clients |-> "none"]
    /\ args = [p \in Clients |-> NoArgs]
    /\ idx = [p \in Clients |-> 0]
    /\ tag = [p \in Clients |-> NoneV]
    /\ tag_ids = [p \in Clients |-> <<>>]
    /\ missing_tags = [p \in Clients |-> <<>>]
    /\ calls = [p \in Clients |-> <<>>]
    /\ result = [p \in Clients |-> NoResult]
    /\ before = [p \in Clients |-> [i \in Issues |-> {}]]
    /\ prev = [p \in Clients |-> NoPrev]
    /\ lastWriter = [i \in Issues |-> 0]

\* No call of utils.py from outside the tools is under way.
UtilsIdle ==
    /\ heap = <<>>
    /\ data = NoneV
    /\ enhanced_data = NoResult
    /\ enhanced_again = NoResult
    /\ heapAtCall = <<>>

Init == ToolsInit /\ UtilsIdle

\* ------------------------------------------- tags.py: the methods' own logic

\* Bug: the handler reports a fixed text instead of str(e).
ExceptHandler_generic(out) ==
    Returned(format_json_response(ErrorDict(Lit("Internal error"))))

\* Bug: the handler is missing, the failure leaves the method.
ExceptHandler_missing(out) == [kind |-> "raised", text |-> out.text]

\* except Exception as e: return format_json_response({"error": str(e)})
ExceptHandler(out) == Returned(format_json_response(ErrorDict(out.text)))

\* The calls the methods make on the IssuesClient, with their arguments.
find_tag_by_name_call(tag_name) ==
    [fn |-> "find_tag_by_name", tag_name |-> tag_name]

get_tags_call(query, limit) ==
    [fn |-> "get_tags", query |-> query, limit |-> limit]

get_issue_tags_call(issue_id) ==
    [fn |-> "get_issue_tags", issue_id |-> issue_id]

\* Bug: the tag is handed over as a one-element replacement of the tag set.
add_tag_to_issue_call_replace(issue_id, tg) ==
    [fn |-> "set_issue_tags", issue_id |-> issue_id, tag_ids |-> <<tg.v.id>>]

\* Bug: the tag's name is passed where its id is expected.
add_tag_to_issue_call_name(issue_id, tg) ==
    [fn |-> "add_tag_to_issue", issue_id |-> issue_id, tag_id |-> tg.v.name]

add_tag_to_issue_call(issue_id, tg) ==
    [fn |-> "add_tag_to_issue", issue_id |-> issue_id, tag_id |-> tg.v.id]

remove_tag_from_issue_call(issue_id, tg) ==
    [fn |-> "remove_tag_from_issue", issue_id |-> issue_id, tag_id |-> tg.v.id]

set_issue_tags_call(issue_id, ids) ==
    [fn |-> "set_issue_tags", issue_id |-> issue_id, tag_ids |-> ids]

remove_all_tags_from_issue_call(issue_id) ==
    [fn |-> "remove_all_tags_from_issue", issue_id |-> issue_id]

\* The error messages.
\* Bug: the f prefix of the string is missing, the name is not filled in.
AddNotFoundMsg_no_f(tag_name) ==
    Lit("Tag '{tag_name}' not found. Use get_available_tags() to see available tags.")

AddNotFoundMsg(tag_name) ==
    Lit("Tag '") \o Lit(tag_name)
        \o Lit("' not found. Use get_available_tags() to see available tags.")

RemoveNotFoundMsg(tag_name) ==
    Lit("Tag '") \o Lit(tag_name) \o Lit("' not found on this issue.")

RemovedMsg(tag_name, issue_id) ==
    Lit("Tag '") \o Lit(tag_name) \o Lit("' removed from issue ") \o Lit(issue_id)

RemoveFailedMsg(tag_name, issue_id) ==
    Lit("Failed to remove tag '") \o Lit(tag_name) \o Lit("' from issue ")
        \o Lit(issue_id)

TagsNotFoundMsg(missing) ==
    Lit("Tags not found: ")
        \o Join(Lit(", "), [i \in 1..Len(missing) |-> Lit(missing[i])])
        \o Lit(". Use get_available_tags() to see available tags.")

FindNotFoundMsg(tag_name) ==
    Lit("Tag '") \o Lit(tag_name) \o Lit("' not found")

\* What each method does with the answer of a call: it ends (next = "done",
\* with its result) or goes on to its mutation (next = "mutate").
Done(res) == [next |-> "done", res |-> res]
GoOn == [next |-> "mutate", res |-> [kind |-> "none"]]

get_available_tags_return(out) ==
    IF out.kind = "exc" THEN Done(ExceptHandler(out))
    ELSE Done(Returned(format_json_response(out.val)))

get_issue_tags_return(out) ==
    IF out.kind = "exc" THEN Done(ExceptHandler(out))
    ELSE Done(Returned(format_json_response(out.val)))

add_tag_to_issue_found(tag_name, out) ==
    IF out.kind = "exc" THEN Done(ExceptHandler(out))
    ELSE IF ~Truthy(out.val)
    THEN Done(Returned(format_json_response(ErrorDict(AddNotFoundMsg(tag_name)))))
    ELSE GoOn

\* Bug: a failed add is tried again.
add_tag_to_issue_return_retry(out) ==
    IF out.kind = "exc" THEN [next |-> "mutate", res |-> [kind |-> "none"]]
    ELSE Done(Returned(format_json_response(out.val)))

add_tag_to_issue_return(out) ==
    IF out.kind = "exc" THEN Done(ExceptHandler(out))
    ELSE Done(Returned(format_json_response(out.val)))

remove_tag_from_issue_found(tag_name, out) ==
    IF out.kind = "exc" THEN Done(ExceptHandler(out))
    ELSE IF ~Truthy(out.val)
    THEN Done(Returned(format_json_response(ErrorDict(RemoveNotFoundMsg(tag_name)))))
    ELSE GoOn

\* Bug: the store's boolean is not looked at.
remove_tag_from_issue_return_unchecked(tag_name, issue_id, out) ==
    IF out.kind = "exc" THEN Done(ExceptHandler(out))
    ELSE Done(Returned(format_json_response(
             MapV([success |-> BoolV(TRUE),
                   message |-> StrV(RemovedMsg(tag_name, issue_id))]))))

remove_tag_from_issue_return(tag_name, issue_id, out) ==
    IF out.kind = "exc" THEN Done(ExceptHandler(out))
    ELSE IF Truthy(out.val)
    THEN Done(Returned(format_json_response(
             MapV([success |-> BoolV(TRUE),
                   message |-> StrV(RemovedMsg(tag_name, issue_id))]))))
    ELSE Done(Returned(format_json_response(
             ErrorDict(RemoveFailedMsg(tag_name, issue_id)))))

\* Bug: the resolved id is put in front of the list instead of at its end.
set_issue_tags_body_prepend(tag_name, tg, ids, missing) ==
    IF Truthy(tg)
    THEN [tag_ids |-> <<tg.v.id>> \o ids, missing_tags |-> missing]
    ELSE [tag_ids |-> ids, missing_tags |-> Append(missing, tag_name)]

\* Bug: the `else` is lost, every name is appended to missing_tags.
set_issue_tags_body_no_else(tag_name, tg, ids, missing) ==
    IF Truthy(tg)
    THEN [tag_ids |-> Append(ids, tg.v.id), missing_tags |-> Append(missing, tag_name)]
    ELSE [tag_ids |-> ids, missing_tags |-> Append(missing, tag_name)]

\* The body of set_issue_tags' for loop, for one name and its lookup's answer.
set_issue_tags_body(tag_name, tg, ids, missing) ==
    IF Truthy(tg)
    THEN [tag_ids |-> Append(ids, tg.v.id), missing_tags |-> missing]
    ELSE [tag_ids |-> ids, missing_tags |-> Append(missing, tag_name)]

\* Bug: the check of missing_tags is left out, the resolved ids are set anyway.
set_issue_tags_check_skipped(missing) == GoOn

\* After the loop: `if missing_tags:` returns the error.
set_issue_tags_check(missing) ==
    IF missing # <<>>
    THEN Done(Returned(format_json_response(ErrorDict(TagsNotFoundMsg(missing)))))
    ELSE GoOn

set_issue_tags_return(out) ==
    IF out.kind = "exc" THEN Done(ExceptHandler(out))
    ELSE Done(Returned(format_json_response(out.val)))

\* Bug: the store's result is dumped as it is, without format_json_response.
remove_all_tags_from_issue_return_raw(out) ==
    IF out.kind = "exc" THEN Done(ExceptHandler(out))
    ELSE Done(Returned(JsonDumps(out.val)))

remove_all_tags_from_issue_return(out) ==
    IF out.kind = "exc" THEN Done(ExceptHandler(out))
    ELSE Done(Returned(format_json_response(out.val)))

find_tag_by_name_return(tag_name, out) ==
    IF out.kind = "exc" THEN Done(ExceptHandler(out))
    ELSE IF Truthy(out.val) THEN Done(Returned(format_json_response(out.val)))
    ELSE Done(Returned(format_json_response(ErrorDict(FindNotFoundMsg(tag_name)))))

\* Bug: the loop is left at the first name that does not resolve.
set_issue_tags_loop_break(i, names, missing) ==
    IF i < Len(names) /\ missing = <<>> THEN [next |-> "find", res |-> [kind |-> "none"]]
    ELSE set_issue_tags_check(missing)

\* Bug: an empty list of names is turned down.
set_issue_tags_loop_no_empty(i, names, missing) ==
    IF names = <<>>
    THEN Done(Returned(format_json_response(ErrorDict(Lit("No tag names given")))))
    ELSE IF i < Len(names) THEN [next |-> "find", res |-> [kind |-> "none"]]
    ELSE set_issue_tags_check(missing)

\* The loop control of set_issue_tags after the lookup of name number i: on
\* to the next name, or out of the loop and to the check of missing_tags.
set_issue_tags_loop(i, names, missing) ==
    IF i < Len(names) THEN [next |-> "find", res |-> [kind |-> "none"]]
    ELSE set_issue_tags_check(missing)

\* ------------------------------------------------------------- the actions

\* The IssuesClient answering call c: each answer it may give, with the tag
\* sets the store holds afterwards.
Answer(dir, tags, c) ==
    CASE c.fn = "find_tag_by_name" ->
            {[out |-> o, tags |-> tags] : o \in FindExactByName(dir, c.tag_name)}
      [] c.fn = "get_tags" ->
            {[out |-> o, tags |-> tags] : o \in DirectoryList(dir, c.query, c.limit)}
      [] c.fn = "get_issue_tags" -> ListForIssue(tags, c.issue_id)
      [] c.fn = "add_tag_to_issue" -> AddById(tags, c.issue_id, c.tag_id)
      [] c.fn = "remove_tag_from_issue" -> RemoveById(tags, c.issue_id, c.tag_id)
      [] c.fn = "set_issue_tags" -> SetIds(tags, c.issue_id, c.tag_ids)
      [] c.fn = "remove_all_tags_from_issue" -> ClearAll(tags, c.issue_id)

\* Client p has made call c, got answer a, and continues as k says.
Step(p, c, a, k) ==
    /\ issueTags' = a.tags
    /\ calls' = [calls EXCEPT ![p] = Append(@, [call |-> c, out |-> a.out])]
    /\ pc' = [pc EXCEPT ![p] = k.next]
    /\ result' = [result EXCEPT ![p] = k.res]
    /\ lastWriter' = IF c.fn \in MutationFns /\ a.out.kind = "ret"
                     THEN [lastWriter EXCEPT ![c.issue_id] = p]
                     ELSE lastWriter
    /\ UNCHANGED utilVars

\* The result carries no "error" key.
Succeeded(res) ==
    /\ res.kind = "returned"
    /\ res.value.v.k = "map" => "error" \notin DOMAIN res.value.v.v

\* What the invocation client p has just completed leaves for the next one to
\* look back on: the issue and the resolved tag of a successful add.
Completed(p) ==
    IF pc[p] = "done" /\ op[p] = "add_tag_to_issue" /\ Succeeded(result[p])
    THEN [op |-> op[p], issue_id |-> args[p].issue_id, tag |-> tag[p]]
    ELSE NoPrev

\* A caller invokes a tool: the method starts, its locals fresh.
Start(p, o, a) ==
    LET first ==
            IF o \in {"get_available_tags", "get_issue_tags",
                      "remove_all_tags_from_issue"}
            THEN [next |-> "call", res |-> NoResult]
            ELSE IF o = "set_issue_tags"
            THEN set_issue_tags_loop(0, a.tag_names, <<>>)
            ELSE [next |-> "find", res |-> NoResult]
    IN  /\ op' = [op EXCEPT ![p] = o]
        /\ args' = [args EXCEPT ![p] = a]
        /\ pc' = [pc EXCEPT ![p] = first.next]
        /\ result' = [result EXCEPT ![p] = first.res]
        /\ idx' = [idx EXCEPT ![p] = 1]
        /\ tag' = [tag EXCEPT ![p] = NoneV]
        /\ tag_ids' = [tag_ids EXCEPT ![p] = <<>>]
        /\ missing_tags' = [missing_tags EXCEPT ![p] = <<>>]
        /\ calls' = [calls EXCEPT ![p] = <<>>]
        /\ before' = [before EXCEPT ![p] = issueTags]
        /\ prev' = [prev EXCEPT ![p] = Completed(p)]
        /\ UNCHANGED <<directory, issueTags, lastWriter>>
        /\ UNCHANGED utilVars

Invoke(p) ==
    /\ pc[p] \in {"idle", "done"}
    /\ \E o \in Ops : \E a \in ArgsOf(o) : Start(p, o, a)

get_available_tags(p) ==
    /\ pc[p] = "call" /\ op[p] = "get_available_tags"
    /\ LET c == get_tags_call(args[p].query, args[p].limit)
       IN  \E a \in Answer(directory, issueTags, c) :
             Step(p, c, a, get_available_tags_return(a.out))
    /\ UNCHANGED <<directory, op, args, idx, tag, tag_ids, missing_tags, before, prev>>

get_issue_tags(p) ==
    /\ pc[p] = "call" /\ op[p] = "get_issue_tags"
    /\ LET c == get_issue_tags_call(args[p].issue_id)
       IN  \E a \in Answer(directory, issueTags, c) :
             Step(p, c, a, get_issue_tags_return(a.out))
    /\ UNCHANGED <<directory, op, args, idx, tag, tag_ids, missing_tags, before, prev>>

add_tag_to_issue_find(p) ==
    /\ pc[p] = "find" /\ op[p] = "add_tag_to_issue"
    /\ LET c == find_tag_by_name_call(args[p].tag_name)
       IN  \E a \in Answer(directory, issueTags, c) :
             /\ Step(p, c, a, add_tag_to_issue_found(args[p].tag_name, a.out))
             /\ tag' = [tag EXCEPT ![p] = IF a.out.kind = "ret" THEN a.out.val ELSE @]
    /\ UNCHANGED <<directory, op, args, idx, tag_ids, missing_tags, before, prev>>

\* Bug: the tag the previous successful add resolved for this name is used
\* again instead of the one just looked up.
add_tag_to_issue_add_cached(p) ==
    /\ pc[p] = "mutate" /\ op[p] = "add_tag_to_issue"
    /\ LET cached == IF prev[p].op = "add_tag_to_issue"
                        /\ prev[p].tag.v.name = S(args[p].tag_name)
                     THEN prev[p].tag ELSE tag[p]
           c == add_tag_to_issue_call(args[p].issue_id, cached)
       IN  \E a \in Answer(directory, issueTags, c) :
             Step(p, c, a, add_tag_to_issue_return(a.out))
    /\ UNCHANGED <<directory, op, args, idx, tag, tag_ids, missing_tags, before, prev>>

add_tag_to_issue_add(p) ==
    /\ pc[p] = "mutate" /\ op[p] = "add_tag_to_issue"
    /\ LET c == add_tag_to_issue_call(args[p].issue_id, tag[p])
       IN  \E a \in Answer(directory, issueTags, c) :
             Step(p, c, a, add_tag_to_issue_return(a.out))
    /\ UNCHANGED <<directory, op, args, idx, tag, tag_ids, missing_tags, before, prev>>

remove_tag_from_issue_find(p) ==
    /\ pc[p] = "find" /\ op[p] = "remove_tag_from_issue"
    /\ LET c == find_tag_by_name_call(args[p].tag_name)
       IN  \E a \in Answer(directory, issueTags, c) :
             /\ Step(p, c, a, remove_tag_from_issue_found(args[p].tag_name, a.out))
             /\ tag' = [tag EXCEPT ![p] = IF a.out.kind = "ret" THEN a.out.val ELSE @]
    /\ UNCHANGED <<directory, op, args, idx, tag_ids, missing_tags, before, prev>>

remove_tag_from_issue_remove(p) ==
    /\ pc[p] = "mutate" /\ op[p] = "remove_tag_from_issue"
    /\ LET c == remove_tag_from_issue_call(args[p].issue_id, tag[p])
       IN  \E a \in Answer(directory, issueTags, c) :
             Step(p, c, a, remove_tag_from_issue_return(
                               args[p].tag_name, args[p].issue_id, a.out))
    /\ UNCHANGED <<directory, op, args, idx, tag, tag_ids, missing_tags, before, prev>>

set_issue_tags_find(p) ==
    /\ pc[p] = "find" /\ op[p] = "set_issue_tags"
    /\ LET tag_name == args[p].tag_names[idx[p]]
           c == find_tag_by_name_call(tag_name)
       IN  \E a \in Answer(directory, issueTags, c) :
             IF a.out.kind = "exc"
             THEN /\ Step(p, c, a, Done(ExceptHandler(a.out)))
                  /\ UNCHANGED <<idx, tag_ids, missing_tags>>
             ELSE LET part == set_issue_tags_body(tag_name, a.out.val,
                                                  tag_ids[p], missing_tags[p])
                  IN  /\ Step(p, c, a, set_issue_tags_loop(
                                  idx[p], args[p].tag_names, part.missing_tags))
                      /\ idx' = [idx EXCEPT ![p] = @ + 1]
                      /\ tag_ids' = [tag_ids EXCEPT ![p] = part.tag_ids]
                      /\ missing_tags' = [missing_tags EXCEPT ![p] = part.missing_tags]
    /\ UNCHANGED <<directory, op, args, tag, before, prev>>

\* Bug: the tags the issue had at invocation are written back with the new ones.
set_issue_tags_set_merged(p) ==
    /\ pc[p] = "mutate" /\ op[p] = "set_issue_tags"
    /\ LET kept == SelectSeq(TagOrder, LAMBDA id : id \in before[p][args[p].issue_id])
           c == set_issue_tags_call(args[p].issue_id,
                                    tag_ids[p] \o [i \in 1..Len(kept) |-> S(kept[i])])
       IN  \E a \in Answer(directory, issueTags, c) :
             Step(p, c, a, set_issue_tags_return(a.out))
    /\ UNCHANGED <<directory, op, args, idx, tag, tag_ids, missing_tags, before, prev>>

set_issue_tags_set(p) ==
    /\ pc[p] = "mutate" /\ op[p] = "set_issue_tags"
    /\ LET c == set_issue_tags_call(args[p].issue_id, tag_ids[p])
       IN  \E a \in Answer(directory, issueTags, c) :
             Step(p, c, a, set_issue_tags_return(a.out))
    /\ UNCHANGED <<directory, op, args, idx, tag, tag_ids, missing_tags, before, prev>>

remove_all_tags_from_issue(p) ==
    /\ pc[p] = "call" /\ op[p] = "remove_all_tags_from_issue"
    /\ LET c == remove_all_tags_from_issue_call(args[p].issue_id)
       IN  \E a \in Answer(directory, issueTags, c) :
             Step(p, c, a, remove_all_tags_from_issue_return(a.out))
    /\ UNCHANGED <<directory, op, args, idx, tag, tag_ids, missing_tags, before, prev>>

find_tag_by_name(p) ==
    /\ pc[p] = "find" /\ op[p] = "find_tag_by_name"
    /\ LET c == find_tag_by_name_call(args[p].tag_name)
       IN  \E a \in Answer(directory, issueTags, c) :
             Step(p, c, a, find_tag_by_name_return(args[p].tag_name, a.out))
    /\ UNCHANGED <<directory, op, args, idx, tag, tag_ids, missing_tags, before, prev>>

\* One step of client p.
ClientStep(p) ==
    \/ Invoke(p)
    \/ get_available_tags(p)
    \/ get_issue_tags(p)
    \/ add_tag_to_issue_find(p)
    \/ add_tag_to_issue_add(p)
    \/ remove_tag_from_issue_find(p)
    \/ remove_tag_from_issue_remove(p)
    \/ set_issue_tags_find(p)
    \/ set_issue_tags_set(p)
    \/ remove_all_tags_from_issue(p)
    \/ find_tag_by_name(p)

\* One caller at a time: every invocation runs to its end before the next.
Sequential == {1}

Next == \E p \in Sequential : ClientStep(p)

Spec == Init /\ [][Next]_vars

\* ------------------------------------------------- callers side by side

\* Two callers, each invoking once, replace or add tags of one issue with
\* names the directory knows.  The core holds no lock: each call on the
\* IssuesClient is a remote request of its own, and the requests of the two
\* callers reach the tracker in any order.
SharedIssue == "DEMO-123"
KnownNames == {"deploy", "urgent"}

ConcArgsOf(o) ==
    IF o = "add_tag_to_issue"
    THEN {[NoArgs EXCEPT !.issue_id = SharedIssue, !.tag_name = n] : n \in KnownNames}
    ELSE {[NoArgs EXCEPT !.issue_id = SharedIssue, !.tag_names = ns] :
              ns \in SeqsUpTo(KnownNames, MaxLen)}

ConcInvoke(p) ==
    /\ pc[p] = "idle"
    /\ \E o \in {"add_tag_to_issue", "set_issue_tags"} :
         \E a \in ConcArgsOf(o) : Start(p, o, a)

ConcStep(p) ==
    \/ ConcInvoke(p)
    \/ add_tag_to_issue_find(p)
    \/ add_tag_to_issue_add(p)
    \/ set_issue_tags_find(p)
    \/ set_issue_tags_set(p)

ConcNext == \E p \in Clients : ConcStep(p)

SpecConc == Init /\ [][ConcNext]_vars

\* ------------------------------------------- the directory over time

\* Tags are created, deleted and given another id in the tracker at any
\* time; one caller invokes, one after the other, the tools that take names.
ChangingNames == {"deploy", "ghost"}

DirArgsOf(o) ==
    IF o = "set_issue_tags"
    THEN {[NoArgs EXCEPT !.issue_id = SharedIssue, !.tag_names = ns] :
              ns \in SeqsUpTo(ChangingNames, MaxLen)}
    ELSE IF o = "find_tag_by_name"
    THEN {[NoArgs EXCEPT !.tag_name = n] : n \in ChangingNames}
    ELSE {[NoArgs EXCEPT !.issue_id = SharedIssue, !.tag_name = n] :
              n \in ChangingNames}

DirInvoke(p) ==
    /\ pc[p] \in {"idle", "done"}
    /\ \E o \in {"add_tag_to_issue", "remove_tag_from_issue", "set_issue_tags",
                 "find_tag_by_name"} :
         \E a \in DirArgsOf(o) : Start(p, o, a)

\* The directory's entry for a name changes: the tag is created, deleted
\* ("") or re-assigned an id.
DirectoryChange ==
    /\ \E n \in ChangingNames : \E id \in TagIds \cup {""} :
         /\ directory[n] # id
         /\ directory' = [directory EXCEPT ![n] = id]
    /\ UNCHANGED <<issueTags, pc, op, args, idx, tag, tag_ids, missing_tags,
                   calls, result, before, prev, lastWriter>>
    /\ UNCHANGED utilVars

DirStep(p) ==
    \/ DirInvoke(p)
    \/ add_tag_to_issue_find(p)
    \/ add_tag_to_issue_add(p)
    \/ remove_tag_from_issue_find(p)
    \/ remove_tag_from_issue_remove(p)
    \/ set_issue_tags_find(p)
    \/ set_issue_tags_set(p)
    \/ find_tag_by_name(p)

DirNext == DirectoryChange \/ \E p \in Sequential : DirStep(p)

SpecDir == Init /\ [][DirNext]_vars

\* ------------------------------------------ utils.py called on its own

\* The scalars a response may hold: an integer stamp in range, one past each
\* end of what datetime holds, a boolean, a string, null, a fractional number.
Scalars ==
    {IntV(ts) : ts \in Timestamps}
        \cup {IntV(DatetimeMax + 1), IntV(DatetimeMin - 1), BoolV(TRUE),
              S("x"), NoneV, FloatV(1700000)}

\* The keys of the flat mappings, and the values each key is tried with.
KeySets ==
    {{}, {"created"}, {"updated"}, {"created", "updated"},
     {"created", "created_iso8601"}, {"id", "created"}}

ValuesOf(key) ==
    IF key = "created" THEN Scalars
    ELSE IF key = "updated" THEN {IntV(ts) : ts \in Timestamps} \cup {S("x")}
    ELSE {S("x")}

FlatMappings ==
    UNION {{f \in [K -> Scalars] : \A key \in K : f[key] \in ValuesOf(key)} :
               K \in KeySets}

\* One more level around a value: as a mapping's value, as a sequence's item,
\* and as the value of "created" next to an integer "updated".
Wraps(x) ==
    {MapV([issue |-> x]), ListV(<<x>>), ListV(<<S("x"), x>>),
     MapV([created |-> x, updated |-> IntV(1700000)])}

RECURSIVE Nested(_)
Nested(d) ==
    IF d = 0 THEN Scalars \cup {MapV(f) : f \in FlatMappings}
    ELSE LET inner == Nested(d - 1)
         IN  inner \cup UNION {Wraps(x) : x \in inner}

Inputs == Nested(MaxDepth)

\* The caller holds one JSON-compatible value.
UtilsInit ==
    /\ ToolsInit
    /\ \E x \in Inputs :
         LET n == Alloc(<<>>, x)
         IN  /\ heap = n.h
             /\ data = n.c
             /\ heapAtCall = n.h
    /\ enhanced_data = NoResult
    /\ enhanced_again = NoResult

\* enhanced_data = add_iso8601_timestamps(data)
Normalize ==
    /\ enhanced_data = NoResult
    /\ LET n == HeapNormalize(heap, data)
       IN  /\ heap' = n.h
           /\ enhanced_data' = n.c
    /\ UNCHANGED <<data, enhanced_again, heapAtCall>>
    /\ UNCHANGED toolVars

\* The transform is applied to its own output.
Renormalize ==
    /\ enhanced_data # NoResult
    /\ enhanced_again = NoResult
    /\ LET n == HeapNormalize(heap, enhanced_data)
       IN  /\ heap' = n.h
           /\ enhanced_again' = n.c
    /\ UNCHANGED <<data, enhanced_data, heapAtCall>>
    /\ UNCHANGED toolVars

UtilsNext == Normalize \/ Renormalize

SpecUtils == UtilsInit /\ [][UtilsNext]_vars

\* ------------------------------------------------------- reading the state

\* The positions in client p's call log of the calls of the given methods.
CallsTo(p, fns) == {i \in DOMAIN calls[p] : calls[p][i].call.fn \in fns}

\* The lookups of client p that came back with an answer (did not raise).
Answered(p) ==
    {i \in CallsTo(p, {"find_tag_by_name"}) : calls[p][i].out.kind = "ret"}

\* Lookup i of client p resolved / did not resolve its name.
Resolved(p, i) == i \in Answered(p) /\ Truthy(calls[p][i].out.val)
Unresolved(p, i) == i \in Answered(p) /\ ~Truthy(calls[p][i].out.val)

\* Some call of client p raised.
SomeCallRaised(p) == \E i \in DOMAIN calls[p] : calls[p][i].out.kind = "exc"

\* Client p's invocation ended by returning {"error": <message>} as JSON.
ReturnedError(p) ==
    /\ result[p].kind = "returned"
    /\ result[p].value.k = "json"
    /\ result[p].value.v.k = "map"
    /\ DOMAIN result[p].value.v.v = {"error"}
    /\ result[p].value.v.v.error.k = "str"

\* The message of that error.
ErrorMessage(p) == result[p].value.v.v.error.v

\* A set_issue_tags invocation of client p, under way or done.
InSet(p) == op[p] = "set_issue_tags" /\ pc[p] \in {"find", "mutate", "done"}

\* --------------------------------------------------------------- the claims

\* C1: set_issue_tags is all-or-nothing.  Once a lookup of the invocation has
\* come back without a tag, the invocation never calls the store's set-tags
\* operation (nor any other mutation), the issues' tag sets are as they were
\* when it was invoked, and when it ends its result is an error.
C1_AllOrNothing ==
    \A p \in Clients :
        (InSet(p) /\ \E i \in DOMAIN calls[p] : Unresolved(p, i)) =>
            /\ CallsTo(p, MutationFns) = {}
            /\ pc[p] # "mutate"
            /\ issueTags = before[p]
            /\ pc[p] = "done" => ReturnedError(p)

\* C1 witness: a finished set_issue_tags on an issue that carries a tag, whose
\* first name resolved and whose second did not.
C1_Witness ==
    \E p \in Clients :
        /\ op[p] = "set_issue_tags" /\ pc[p] = "done"
        /\ Len(calls[p]) = 2 /\ Resolved(p, 1) /\ Unresolved(p, 2)
        /\ before[p][args[p].issue_id] # {}

\* C2: when every name given to set_issue_tags resolves, the store's set-tags
\* operation is called exactly once, with the issue id given and with a list
\* as long as the input whose i-th entry is the id the i-th lookup resolved
\* (order and duplicates kept); when the store answers, the issue's tag set
\* is the set of these ids.
C2_SetCalledOnceInOrder ==
    \A p \in Clients :
        LET names == args[p].tag_names
            n == Len(names)
        IN  (/\ op[p] = "set_issue_tags" /\ pc[p] = "done"
             /\ \A i \in 1..n : Resolved(p, i)) =>
                /\ CallsTo(p, MutationFns) = {n + 1}
                /\ Len(calls[p]) = n + 1
                /\ calls[p][n + 1].call.fn = "set_issue_tags"
                /\ calls[p][n + 1].call.issue_id = args[p].issue_id
                /\ Len(calls[p][n + 1].call.tag_ids) = n
                /\ \A i \in 1..n :
                     /\ calls[p][i].call.tag_name = names[i]
                     /\ calls[p][n + 1].call.tag_ids[i] = calls[p][i].out.val.v.id
                /\ calls[p][n + 1].out.kind = "ret" =>
                     issueTags[args[p].issue_id] =
                         {IdOf(calls[p][i].out.val.v.id) : i \in 1..n}

\* C2 witness: a finished set_issue_tags of two names that resolved to two
\* different ids, answered by the store, on an issue that carried another tag set.
C2_Witness ==
    \E p \in Clients :
        /\ op[p] = "set_issue_tags" /\ pc[p] = "done"
        /\ Len(calls[p]) = 3 /\ Resolved(p, 1) /\ Resolved(p, 2)
        /\ calls[p][1].out.val # calls[p][2].out.val
        /\ calls[p][3].out.kind = "ret"
        /\ before[p][args[p].issue_id] # issueTags[args[p].issue_id]

\* C3: when set_issue_tags ends on unresolved names (no lookup raised), every
\* name of the input was looked up, in order, and the result is the error
\* "Tags not found: <names>. Use get_available_tags() to see available tags."
\* where <names> are the unresolved names in input order, repeated as often
\* as they were given, joined by ", ".
C3_MissingListed ==
    \A p \in Clients :
        LET names == args[p].tag_names
            n == Len(names)
            miss == {i \in 1..n : Unresolved(p, i)}
            m == Cardinality(miss)
            \* the place among the unresolved names of input position i
            rank(i) == Cardinality({j \in miss : j <= i})
        IN  (/\ op[p] = "set_issue_tags" /\ pc[p] = "done"
             /\ ~SomeCallRaised(p)
             /\ \E i \in DOMAIN calls[p] : Unresolved(p, i)) =>
                /\ Len(calls[p]) = n
                /\ \A i \in 1..n :
                     calls[p][i].call = [fn |-> "find_tag_by_name", tag_name |-> names[i]]
                /\ ReturnedError(p)
                /\ Len(ErrorMessage(p)) = 2 * m + 1
                /\ ErrorMessage(p)[1] = [lit |-> "Tags not found: "]
                /\ \A i \in miss :
                     /\ ErrorMessage(p)[2 * rank(i)] = [lit |-> names[i]]
                     /\ rank(i) > 1 => ErrorMessage(p)[2 * rank(i) - 1] = [lit |-> ", "]
                /\ ErrorMessage(p)[2 * m + 1] =
                     [lit |-> ". Use get_available_tags() to see available tags."]

\* C3 witness: a finished set_issue_tags whose two names, given against the
\* alphabet, were both unresolved.
C3_Witness ==
    \E p \in Clients :
        /\ op[p] = "set_issue_tags" /\ pc[p] = "done"
        /\ args[p].tag_names = <<"ghost", "alpha">>
        /\ Unresolved(p, 1) /\ Unresolved(p, 2)

\* C4: in set_issue_tags, after the lookups of the first k names have been
\* answered, tag_ids and missing_tags together have k entries, and the i-th
\* name (i <= k) is in exactly one of them, at the place its input position
\* gives it: its id in tag_ids if it resolved, its name in missing_tags if not.
C4_Partition ==
    \A p \in Clients :
        LET names == args[p].tag_names
            k == Cardinality(Answered(p))
            hits(i) == Cardinality({j \in 1..i : Resolved(p, j)})
            misses(i) == Cardinality({j \in 1..i : Unresolved(p, j)})
        IN  InSet(p) =>
                /\ Answered(p) = 1..k
                /\ Len(tag_ids[p]) + Len(missing_tags[p]) = k
                /\ Len(tag_ids[p]) = hits(k)
                /\ Len(missing_tags[p]) = misses(k)
                /\ \A i \in 1..k :
                     /\ Resolved(p, i) => tag_ids[p][hits(i)] = calls[p][i].out.val.v.id
                     /\ Unresolved(p, i) => missing_tags[p][misses(i)] = names[i]

\* C4 witness: the loop stands between its first and second name, the first
\* one in missing_tags.
C4_Witness ==
    \E p \in Clients :
        /\ op[p] = "set_issue_tags" /\ pc[p] = "find"
        /\ idx[p] = 2 /\ missing_tags[p] = <<args[p].tag_names[1]>>
        /\ tag_ids[p] = <<>>

\* C5: when the lookup of add_tag_to_issue, remove_tag_from_issue or
\* find_tag_by_name comes back without a tag, the invocation ends at once with
\* an error whose message contains the tag name as given, and it has made no
\* add, remove, set or clear call: the lookup is its only call.
C5_NotFoundNoMutation ==
    \A p \in Clients :
        (/\ op[p] \in {"add_tag_to_issue", "remove_tag_from_issue", "find_tag_by_name"}
         /\ calls[p] # <<>>
         /\ Unresolved(p, 1)) =>
            /\ pc[p] = "done"
            /\ ReturnedError(p)
            /\ Contains(ErrorMessage(p), Lit(args[p].tag_name))
            /\ CallsTo(p, MutationFns) = {}
            /\ Len(calls[p]) = 1
            /\ issueTags = before[p]

\* C5 witness: an add_tag_to_issue whose tag name the directory did not
\* resolve, on an issue that carries a tag.
C5_Witness ==
    \E p \in Clients :
        /\ op[p] = "add_tag_to_issue" /\ pc[p] = "done"
        /\ calls[p] # <<>> /\ Unresolved(p, 1)
        /\ before[p][args[p].issue_id] # {}

\* C6: when its tag name resolves, add_tag_to_issue makes one lookup, with that
\* name, and one mutation, the store's add with the issue id given and the id
\* resolved; it makes no remove, set or clear call, and every tag that was on
\* an issue when it was invoked is still on it.
C6_AddAdditive ==
    \A p \in Clients :
        (/\ op[p] = "add_tag_to_issue" /\ pc[p] = "done"
         /\ Resolved(p, 1)) =>
            /\ Len(calls[p]) = 2
            /\ calls[p][1].call = [fn |-> "find_tag_by_name", tag_name |-> args[p].tag_name]
            /\ calls[p][2].call =
                 [fn |-> "add_tag_to_issue", issue_id |-> args[p].issue_id,
                  tag_id |-> calls[p][1].out.val.v.id]
            /\ \A i \in Issues : before[p][i] \subseteq issueTags[i]

\* C6 witness: a successful add of a tag to an issue that carried another one.
C6_Witness ==
    \E p \in Clients :
        /\ op[p] = "add_tag_to_issue" /\ pc[p] = "done"
        /\ Len(calls[p]) = 2 /\ Resolved(p, 1) /\ calls[p][2].out.kind = "ret"
        /\ before[p][args[p].issue_id] # {}
        /\ IdOf(calls[p][1].out.val.v.id) \notin before[p][args[p].issue_id]

\* C7: a get_issue_tags that follows a successful add_tag_to_issue on the same
\* issue and is answered by the store returns a list of tags in which the
\* added tag's id occurs.
C7_AddThenGet ==
    \A p \in Clients :
        (/\ op[p] = "get_issue_tags" /\ pc[p] = "done"
         /\ calls[p][1].out.kind = "ret"
         /\ prev[p].op = "add_tag_to_issue"
         /\ prev[p].issue_id = args[p].issue_id) =>
            /\ result[p].kind = "returned"
            /\ result[p].value.k = "json"
            /\ result[p].value.v.k = "list"
            /\ \E j \in 1..Len(result[p].value.v.v) :
                 result[p].value.v.v[j].v.id = prev[p].tag.v.id

\* C7 witness: such a get_issue_tags, returning two tags.
C7_Witness ==
    \E p \in Clients :
        /\ op[p] = "get_issue_tags" /\ pc[p] = "done"
        /\ calls[p][1].out.kind = "ret"
        /\ prev[p].op = "add_tag_to_issue"
        /\ prev[p].issue_id = args[p].issue_id
        /\ Succeeded(result[p])
        /\ Len(result[p].value.v.v) = 2

\* C8: when its tag name resolves, remove_tag_from_issue calls the store's
\* remove once, with the issue id given and the id resolved.  If the store
\* answers true the result is {success: true, message: "Tag '<name>' removed
\* from issue <issue_id>"}; if it answers false the result is returned (not
\* raised) and is an error whose message names the tag and the issue.
C8_RemoveMirrorsStore ==
    \A p \in Clients :
        (/\ op[p] = "remove_tag_from_issue" /\ pc[p] = "done"
         /\ Resolved(p, 1)) =>
            /\ Len(calls[p]) = 2
            /\ calls[p][2].call =
                 [fn |-> "remove_tag_from_issue", issue_id |-> args[p].issue_id,
                  tag_id |-> calls[p][1].out.val.v.id]
            /\ calls[p][2].out = Ret(BoolV(TRUE)) =>
                 result[p] = Returned(JsonDumps(MapV(
                     [success |-> BoolV(TRUE),
                      message |-> StrV(<<[lit |-> "Tag '"], [lit |-> args[p].tag_name],
                                         [lit |-> "' removed from issue "],
                                         [lit |-> args[p].issue_id]>>)])))
            /\ calls[p][2].out = Ret(BoolV(FALSE)) =>
                 /\ ReturnedError(p)
                 /\ Contains(ErrorMessage(p), Lit(args[p].tag_name))
                 /\ Contains(ErrorMessage(p), Lit(args[p].issue_id))

\* C8 witness: a remove_tag_from_issue of a tag the directory knows and the
\* issue does not carry: the store answered false.
C8_Witness ==
    \E p \in Clients :
        /\ op[p] = "remove_tag_from_issue" /\ pc[p] = "done"
        /\ Len(calls[p]) = 2 /\ Resolved(p, 1)
        /\ calls[p][2].out = Ret(BoolV(FALSE))

\* C9: remove_all_tags_from_issue makes one call, the store's clear-all with
\* the issue id given, and no lookup, whatever tags the issue carries; when
\* the store answers, the result is its answer after normalization: every key
\* of the answer with its value, and the ISO-8601 rendering of "updated".
C9_ClearOneCall ==
    \A p \in Clients :
        op[p] = "remove_all_tags_from_issue" =>
            /\ pc[p] = "call" => calls[p] = <<>>
            /\ pc[p] = "done" =>
                 /\ Len(calls[p]) = 1
                 /\ calls[p][1].call =
                      [fn |-> "remove_all_tags_from_issue",
                       issue_id |-> args[p].issue_id]
                 /\ calls[p][1].out.kind = "ret" =>
                      LET answer == calls[p][1].out.val.v
                          given == result[p].value.v.v
                      IN  /\ result[p].kind = "returned"
                          /\ result[p].value.k = "json"
                          /\ DOMAIN given = DOMAIN answer \cup {"updated_iso8601"}
                          /\ \A key \in DOMAIN answer : given[key] = answer[key]
                          /\ given["updated_iso8601"] =
                               StrV(<<[iso |-> answer["updated"].v]>>)

\* C9 witness: a remove_all_tags_from_issue, answered by the store, on an
\* issue that carried two tags.
C9_Witness ==
    \E p \in Clients :
        /\ op[p] = "remove_all_tags_from_issue" /\ pc[p] = "done"
        /\ calls[p][1].out.kind = "ret"
        /\ Cardinality(before[p][args[p].issue_id]) = 2

\* C10: every invocation of a tool that has ended has returned a JSON string,
\* no exception has left the method, and an invocation under way can take its
\* next step; when one of its calls raised, the result is {"error": <message>}
\* and the message contains the text of the failure.
C10_AlwaysJson ==
    \A p \in Clients :
        /\ pc[p] \in {"call", "find", "mutate"} => ENABLED ClientStep(p)
        /\ pc[p] = "done" =>
             /\ result[p].kind = "returned"
             /\ result[p].value.k = "json"
             /\ \A i \in DOMAIN calls[p] :
                  calls[p][i].out.kind = "exc" =>
                      /\ i = Len(calls[p])
                      /\ ReturnedError(p)
                      /\ Contains(ErrorMessage(p), calls[p][i].out.text)

\* C10 witness: a set_issue_tags whose lookups resolved and whose call of the
\* store raised.
C10_Witness ==
    \E p \in Clients :
        /\ op[p] = "set_issue_tags" /\ pc[p] = "done"
        /\ Len(calls[p]) = 3
        /\ calls[p][3].call.fn = "set_issue_tags"
        /\ calls[p][3].out.kind = "exc"

\* The names client p's invocation has to resolve, in the order given.
NamesToResolve(p) ==
    CASE op[p] \in {"add_tag_to_issue", "remove_tag_from_issue"} -> <<args[p].tag_name>>
      [] op[p] = "set_issue_tags" -> args[p].tag_names
      [] OTHER -> <<>>

\* C11: an invocation of add, remove, replace or clear makes its lookups
\* first, one per name and in the order of the names (a repeated name is
\* looked up again, clear looks nothing up), never the same position twice and
\* never more than one mutation call, and makes no other call.  When it ends
\* and no call raised, every name was looked up once; if moreover all of them
\* resolved, it made exactly one mutation call.
C11_CallBudget ==
    \A p \in Clients :
        LET names == NamesToResolve(p)
            finds == CallsTo(p, {"find_tag_by_name"})
            muts == CallsTo(p, MutationFns)
        IN  op[p] \in MutationFns =>
                /\ finds = 1..Cardinality(finds)
                /\ Cardinality(finds) <= Len(names)
                /\ \A i \in finds : calls[p][i].call.tag_name = names[i]
                /\ Cardinality(muts) <= 1
                /\ Len(calls[p]) = Cardinality(finds) + Cardinality(muts)
                /\ \A i \in muts : calls[p][i].call.fn = op[p]
                /\ (pc[p] = "done" /\ ~SomeCallRaised(p)) =>
                     /\ Cardinality(finds) = Len(names)
                     /\ (\A i \in finds : Resolved(p, i)) => Cardinality(muts) = 1

\* C11 witness: a replace with the same name given twice: two lookups, then
\* the one mutation call, answered.
C11_Witness ==
    \E p \in Clients :
        /\ op[p] = "set_issue_tags" /\ pc[p] = "done"
        /\ Len(args[p].tag_names) = 2
        /\ args[p].tag_names[1] = args[p].tag_names[2]
        /\ Len(calls[p]) = 3 /\ ~SomeCallRaised(p)

\* C19: when a lookup of set_issue_tags raises, it is the last call of the
\* invocation: no further name is looked up, set-tags is not called, and the
\* result is {"error": <text of the failure>}, also when a name before it was
\* unresolved.
C19_LookupRaiseStops ==
    \A p \in Clients :
        \A i \in CallsTo(p, {"find_tag_by_name"}) :
            (op[p] = "set_issue_tags" /\ calls[p][i].out.kind = "exc") =>
                /\ pc[p] = "done"
                /\ Len(calls[p]) = i
                /\ CallsTo(p, MutationFns) = {}
                /\ result[p] =
                     Returned(JsonDumps(MapV([error |-> StrV(calls[p][i].out.text)])))

\* C19 witness: the first name was unresolved, the lookup of the second raised.
C19_Witness ==
    \E p \in Clients :
        /\ op[p] = "set_issue_tags" /\ pc[p] = "done"
        /\ Len(args[p].tag_names) = 2
        /\ Len(calls[p]) = 2 /\ Unresolved(p, 1)
        /\ calls[p][2].out.kind = "exc"

\* C20: set_issue_tags with no names makes no lookup and calls set-tags once,
\* with the empty list; it is not turned down, and when the store answers, the
\* issue is left without tags and the tag sets are those clear-all leaves.
C20_EmptySetClears ==
    \A p \in Clients :
        (op[p] = "set_issue_tags" /\ args[p].tag_names = <<>>) =>
            /\ pc[p] \in {"mutate", "done"}
            /\ pc[p] = "mutate" => calls[p] = <<>>
            /\ pc[p] = "done" =>
                 /\ Len(calls[p]) = 1
                 /\ calls[p][1].call =
                      [fn |-> "set_issue_tags", issue_id |-> args[p].issue_id,
                       tag_ids |-> <<>>]
                 /\ calls[p][1].out.kind = "ret" =>
                      /\ Succeeded(result[p])
                      /\ issueTags[args[p].issue_id] = {}
                      /\ [out |-> calls[p][1].out, tags |-> issueTags]
                             \in ClearAll(before[p], args[p].issue_id)

\* C20 witness: an answered set_issue_tags with no names on an issue that
\* carried two tags.
C20_Witness ==
    \E p \in Clients :
        /\ op[p] = "set_issue_tags" /\ pc[p] = "done"
        /\ args[p].tag_names = <<>>
        /\ calls[p][1].out.kind = "ret"
        /\ Cardinality(before[p][args[p].issue_id]) = 2

\* The values the caller's first call of the transform took and returned.
InputValue == Value(heapAtCall, data)
OutputValue == Value(heap, enhanced_data)
Normalized == enhanced_data # NoResult

\* C14: after add_iso8601_timestamps has returned, once and again on its own
\* output, every object the caller held before the call is as it was (each
\* dict's keys and values, each list's items), so the caller's value is the
\* same; what the call returned is the transform of that value, its added keys
\* being in objects made by the call.
C14_InputNotMutated ==
    Normalized =>
        /\ SubSeq(heap, 1, Len(heapAtCall)) = heapAtCall
        /\ Value(heap, data) = InputValue
        /\ OutputValue = add_iso8601_timestamps(InputValue)

\* C14 witness: the call has returned a value that differs from its argument
\* two levels down: a mapping in a sequence in a mapping got a derived key.
C14_Witness ==
    /\ Normalized
    /\ InputValue.k = "map" /\ "issue" \in DOMAIN InputValue.v
    /\ InputValue.v["issue"].k = "list"
    /\ InputValue.v["issue"].v[1].k = "map"
    /\ "created_iso8601" \in DOMAIN OutputValue.v["issue"].v[1].v
    /\ "created_iso8601" \notin DOMAIN InputValue.v["issue"].v[1].v

\* The keys the transform derives, by the field they are derived from.
IsoFieldOf(field) == IF field = "created" THEN "created_iso8601" ELSE "updated_iso8601"
DerivedKeys == {IsoFieldOf(field) : field \in {"created", "updated"}}

\* Every mapping of value x with the mapping it became in y, at any depth.
RECURSIVE MappingPairs(_, _)
MappingPairs(x, y) ==
    IF x.k = "map" /\ y.k = "map"
    THEN {<<x, y>>} \cup
         UNION {MappingPairs(x.v[key], y.v[key]) : key \in DOMAIN x.v \cap DOMAIN y.v}
    ELSE IF x.k = "list" /\ y.k = "list"
    THEN UNION {MappingPairs(x.v[i], y.v[i]) : i \in DOMAIN x.v \cap DOMAIN y.v}
    ELSE {}

\* y is x with nothing but derived keys added to its mappings.
RECURSIVE OnlyAdded(_, _)
OnlyAdded(x, y) ==
    IF x.k = "map"
    THEN /\ y.k = "map"
         /\ DOMAIN x.v \subseteq DOMAIN y.v
         /\ (DOMAIN y.v \ DOMAIN x.v) \subseteq DerivedKeys
         /\ \A key \in DOMAIN x.v : OnlyAdded(x.v[key], y.v[key])
    ELSE IF x.k = "list"
    THEN /\ y.k = "list"
         /\ Len(y.v) = Len(x.v)
         /\ \A i \in DOMAIN x.v : OnlyAdded(x.v[i], y.v[i])
    ELSE y = x

\* An integer the instant construction fails on.
OutOfRange(x) == x.k = "int" /\ (x.v < DatetimeMin \/ x.v > DatetimeMax)

\* C12: the transform is purely additive: every key of every input mapping,
\* whatever its name, is in the output mapping with the same value (up to the
\* transform of nested values), and the output has no other keys in addition
\* than created_iso8601 and updated_iso8601.
C12_PurelyAdditive == Normalized => OnlyAdded(InputValue, OutputValue)

\* C13 as stated: for an integer created/updated the instant construction
\* fails on, no derived key is added and the field is left as it was.
C13_DerivedKeySkipped ==
    Normalized =>
        \A m \in MappingPairs(InputValue, OutputValue) :
            \A field \in {"created", "updated"} :
                (field \in DOMAIN m[1].v /\ OutOfRange(m[1].v[field])) =>
                    /\ m[2].v[field] = m[1].v[field]
                    /\ IsoFieldOf(field) \in DOMAIN m[2].v =>
                         /\ IsoFieldOf(field) \in DOMAIN m[1].v
                         /\ m[2].v[IsoFieldOf(field)] = m[1].v[IsoFieldOf(field)]

\* C13, amended: for an integer created/updated the instant construction fails
\* on, the call returns, the field is left as it was, and the derived key is
\* added holding the integer's decimal text.
C13_DerivedKeyDecimal ==
    Normalized =>
        \A m \in MappingPairs(InputValue, OutputValue) :
            \A field \in {"created", "updated"} :
                (field \in DOMAIN m[1].v /\ OutOfRange(m[1].v[field])) =>
                    /\ m[2].v[field] = m[1].v[field]
                    /\ IsoFieldOf(field) \in DOMAIN m[2].v
                    /\ m[2].v[IsoFieldOf(field)] =
                           StrV(<<[dec |-> m[1].v[field].v]>>)

\* C13 witness: the call has returned for a mapping in a sequence whose
\* "created" is past the last instant datetime holds.
C13_Witness ==
    /\ Normalized
    /\ InputValue.k = "list"
    /\ InputValue.v[1].k = "map"
    /\ "created" \in DOMAIN InputValue.v[1].v
    /\ InputValue.v[1].v["created"] = IntV(DatetimeMax + 1)

\* C15: a mapping whose created and updated are each missing or not an
\* integer (string, boolean, null, fractional number, mapping, sequence) gets
\* no key added: it comes out with the same keys, each value its transform.
C15_NonIntegerUnchanged ==
    Normalized =>
        \A m \in MappingPairs(InputValue, OutputValue) :
            (\A field \in {"created", "updated"} :
                 field \notin DOMAIN m[1].v \/ m[1].v[field].k # "int") =>
                /\ DOMAIN m[2].v = DOMAIN m[1].v
                /\ \A key \in DOMAIN m[1].v :
                       m[2].v[key] = add_iso8601_timestamps(m[1].v[key])

\* C17: the transform applied to its own output returns the same structure as
\* that output.
C17_Idempotent ==
    /\ enhanced_again # NoResult => Value(heap, enhanced_again) = OutputValue
    /\ Normalized => add_iso8601_timestamps(OutputValue) = OutputValue

\* C17 witness: the second call has returned, on an output in which the first
\* had added a derived key two levels down.
C17_Witness ==
    /\ enhanced_again # NoResult
    /\ InputValue.k = "map" /\ "issue" \in DOMAIN InputValue.v
    /\ InputValue.v["issue"].k = "map"
    /\ "issue" \in DOMAIN InputValue.v["issue"].v
    /\ OutputValue.v["issue"].v["issue"] # InputValue.v["issue"].v["issue"]

\* The mutation call of client p's invocation that the store answered, if any.
Writes(p) == {i \in CallsTo(p, MutationFns) : calls[p][i].out.kind = "ret"}

\* The ids the directory gives for the names of client p's set_issue_tags.
IdsOfNames(p) ==
    {directory[args[p].tag_names[i]] : i \in DOMAIN args[p].tag_names}

\* C16: when callers' invocations on one issue interleave, the last write wins:
\* if the store answered a set-tags write of a set_issue_tags whose names all
\* resolved after every other write on the issue, the issue's tags are exactly
\* the ids of that invocation's names, nothing of an earlier write by another
\* set_issue_tags mixed in; a tag another caller added before that write is
\* on the issue only if it is among those ids.
C16_LastWriteWins ==
    \A i \in Issues : \A w \in Clients :
        (/\ lastWriter[i] = w
         /\ op[w] = "set_issue_tags" /\ args[w].issue_id = i
         /\ Writes(w) # {}) =>
            /\ issueTags[i] = IdsOfNames(w)
            /\ \A q \in Clients \ {w} :
                 (/\ op[q] = "add_tag_to_issue" /\ args[q].issue_id = i
                  /\ Writes(q) # {}) =>
                     (directory[args[q].tag_name] \in issueTags[i]
                          <=> directory[args[q].tag_name] \in IdsOfNames(w))

\* C16 witness: two set_issue_tags with different names on one issue, both
\* answered; caller 1 was invoked before caller 2's write was in the store and
\* its own write came last.
C16_Witness ==
    /\ op[1] = "set_issue_tags" /\ op[2] = "set_issue_tags"
    /\ args[1].tag_names = <<"urgent">> /\ args[2].tag_names = <<"deploy">>
    /\ args[1].issue_id = args[2].issue_id
    /\ Writes(1) # {} /\ Writes(2) # {}
    /\ before[1][args[1].issue_id] = {}
    /\ lastWriter[args[1].issue_id] = 1
    /\ issueTags[args[1].issue_id] = {"6-2"}

\* The call client p makes in this step, with its outcome, and the log with it.
MakesCall(p) == Len(calls'[p]) = Len(calls[p]) + 1
NewCall(p) == calls'[p][Len(calls'[p])]

\* Entry i of client p's log after this step is the answered lookup of name n.
LookedUp(p, i, n) ==
    /\ calls'[p][i].call = [fn |-> "find_tag_by_name", tag_name |-> n]
    /\ calls'[p][i].out.kind = "ret"

\* C18: no name-to-id mapping is kept between invocations.  Whatever the
\* directory held before and whatever earlier invocations resolved, every
\* lookup an invocation makes is answered from the directory as it is at that
\* moment, and the id (ids) a mutation call passes is the one this very
\* invocation's lookup of the name (lookups of the names, in order) returned.
C18_FreshLookup ==
    [][\A p \in Clients :
         MakesCall(p) =>
            LET n == Len(calls'[p])
                c == NewCall(p).call
                o == NewCall(p).out
            IN  /\ (c.fn = "find_tag_by_name" /\ o.kind = "ret") =>
                      o.val = IF directory[c.tag_name] = "" THEN NoneV
                              ELSE TagV(directory[c.tag_name], c.tag_name)
                /\ c.fn \in {"add_tag_to_issue", "remove_tag_from_issue"} =>
                      /\ n = 2
                      /\ LookedUp(p, 1, args[p].tag_name)
                      /\ c.tag_id = calls'[p][1].out.val.v.id
                /\ c.fn = "set_issue_tags" =>
                      /\ n = Len(args[p].tag_names) + 1
                      /\ Len(c.tag_ids) = Len(args[p].tag_names)
                      /\ \A i \in DOMAIN args[p].tag_names :
                           /\ LookedUp(p, i, args[p].tag_names[i])
                           /\ c.tag_ids[i] = calls'[p][i].out.val.v.id
                /\ c.fn = "find_tag_by_name" =>
                      c.tag_name = IF op[p] = "set_issue_tags"
                                   THEN args[p].tag_names[n]
                                   ELSE args[p].tag_name]_vars

\* C18 witness: an add of "deploy" went through with id 6-1; the directory
\* then gave the name the id 6-2; the next add of "deploy" passed 6-2.
C18_Witness ==
    \E p \in Clients :
        /\ prev[p] # NoPrev
        /\ prev[p].tag = TagV("6-1", "deploy")
        /\ op[p] = "add_tag_to_issue" /\ args[p].tag_name = "deploy"
        /\ pc[p] = "done" /\ Len(calls[p]) = 2
        /\ calls[p][2].call.tag_id = S("6-2")
        /\ directory["deploy"] = "6-2"

=============================================================================
